---------------------------- MODULE Spec2Model ----------------------------
(***************************************************************************)
(* A model of cricsheet_scraper.py: the transform of one decoded Cricsheet *)
(* match record into Match / Innings / Delivery rows (split_over_ball,     *)
(* parse_v1_innings, parse_v2_innings, detect_and_parse_innings,           *)
(* parse_match_json) and the ingestion loop of main() over a MySQL store   *)
(* (upsert_team, insert_match, insert_innings, insert_deliveries).         *)
(*                                                                         *)
(* Python values are tagged records: the tag k is one of "none", "int",    *)
(* "str", "list", "dict", "float"; a raised exception is the value         *)
(* Raise(e).  A dict keeps its keys in insertion order (ks) beside its     *)
(* values (vs), because the code reads "the first key" of a mapping.       *)
(***************************************************************************)
EXTENDS Integers, Sequences, FiniteSets, TLC

VARIABLES
    fkEnforced,   \* whether the server's storage engine enforces FOREIGN KEYs
    samples,      \* the batch: the (name, fbytes) pairs main() iterates over
    cursor,       \* index of the file main() is working on
    pc,           \* position of main() inside the loop body
    cur,          \* locals of the loop body: j, match_row, innings_rows, ...
    teams,        \* table teams      (set of team_name)
    matches,      \* table matches    (set of rows)
    innings,      \* table innings    (sequence of rows, id = position)
    deliveries,   \* table deliveries (sequence of rows, id = position)
    notes,        \* what main() printed per file
    total_matches,\* main()'s counter
    history,      \* ghost: per file, what its ingestion did
    input,        \* the argument of the pure function under check
    output        \* its result

vars == <<fkEnforced, samples, cursor, pc, cur, teams, matches, innings,
          deliveries, notes, total_matches, history, input, output>>

storeVars == <<teams, matches, innings, deliveries>>
mainVars == <<fkEnforced, samples, cursor, pc, cur, teams, matches, innings,
              deliveries, notes, total_matches, history>>
pureVars == <<input, output>>

-----------------------------------------------------------------------------
(* Python values *)

PyNone == [k |-> "none"]
PInt(n) == [k |-> "int", n |-> n]
PStr(s) == [k |-> "str", s |-> s]
PList(l) == [k |-> "list", l |-> l]
PDict(ks, vs) == [k |-> "dict", ks |-> ks, vs |-> vs]
Float6(n) == [k |-> "float", sixths |-> n]
Raise(e) == [k |-> "raise", e |-> e]
Ok(v) == [k |-> "ok", v |-> v]

EmptyDict == PDict(<<>>, <<>>)
EmptyList == PList(<<>>)

IsRaise(x) == x.k = "raise"
IsDict(x) == x.k = "dict"
IsList(x) == x.k = "list"
IsStr(x) == x.k = "str"
IsInt(x) == x.k = "int"

\* bool(x)
Truthy(x) ==
    CASE x.k = "none" -> FALSE
      [] x.k = "int" -> x.n # 0
      [] x.k = "str" -> x.s # ""
      [] x.k = "list" -> x.l # <<>>
      [] x.k = "dict" -> x.ks # <<>>
      [] OTHER -> TRUE

\* a or b
Or(a, b) == IF Truthy(a) THEN a ELSE b

\* key in d, for a dict d
HasKey(d, key) == \E i \in 1..Len(d.ks) : d.ks[i] = key

\* d[key], for a dict d holding key
Lookup(d, key) == d.vs[CHOOSE i \in 1..Len(d.ks) : d.ks[i] = key]

\* x.get(key, default): AttributeError unless x is a dict
Get(x, key, default) ==
    IF ~IsDict(x) THEN Raise("AttributeError")
    ELSE IF HasKey(x, key) THEN Lookup(x, key) ELSE default

\* whether "for e in x" is defined
Iterable(x) == x.k \in {"list", "dict", "str"}

\* the sequence "for e in x" walks: a list's items, a dict's keys, a str's characters
Iter(x) ==
    CASE x.k = "list" -> x.l
      [] x.k = "dict" -> [i \in 1..Len(x.ks) |-> PStr(x.ks[i])]
      [] x.k = "str" -> [i \in 1..Len(x.s) |-> PStr(SubSeq(x.s, i, i))]

\* a + b
Add(a, b) ==
    CASE a.k = "int" /\ b.k = "int" -> PInt(a.n + b.n)
      [] a.k = "str" /\ b.k = "str" -> PStr(a.s \o b.s)
      [] a.k = "list" /\ b.k = "list" -> PList(a.l \o b.l)
      [] OTHER -> Raise("TypeError")

-----------------------------------------------------------------------------
(* str helpers *)

CharAt(s, i) == SubSeq(s, i, i)

\* c in s, for a one-character c
Contains(s, c) == \E i \in 1..Len(s) : CharAt(s, i) = c

RECURSIVE SplitFrom(_, _, _, _)
\* s.split(c): the pieces of s between the occurrences of c
SplitFrom(s, c, i, piece) ==
    IF i > Len(s) THEN <<piece>>
    ELSE IF CharAt(s, i) = c THEN <<piece>> \o SplitFrom(s, c, i + 1, "")
    ELSE SplitFrom(s, c, i + 1, piece \o CharAt(s, i))

Split(s, c) == SplitFrom(s, c, 1, "")

Digits == {"0", "1", "2", "3", "4", "5", "6", "7", "8", "9"}

DigitVal(c) ==
    CASE c = "0" -> 0 [] c = "1" -> 1 [] c = "2" -> 2 [] c = "3" -> 3
      [] c = "4" -> 4 [] c = "5" -> 5 [] c = "6" -> 6 [] c = "7" -> 7
      [] c = "8" -> 8 [] c = "9" -> 9

RECURSIVE DigitsValue(_, _, _)
\* the value of the decimal digits s[i..], after acc; -1 if one is no digit
DigitsValue(s, i, acc) ==
    IF i > Len(s) THEN acc
    ELSE IF CharAt(s, i) \notin Digits THEN -1
    ELSE DigitsValue(s, i + 1, 10 * acc + DigitVal(CharAt(s, i)))

\* int(s) for a str s: an optional sign, then one or more decimal digits
\* (surrounding whitespace and "_" separators are outside the alphabet modelled)
PyInt(s) ==
    LET signed == Len(s) >= 1 /\ CharAt(s, 1) \in {"-", "+"}
        body == IF signed THEN Tail(s) ELSE s
        v == DigitsValue(body, 1, 0)
    IN IF Len(body) = 0 \/ v < 0 THEN Raise("ValueError")
       ELSE IF signed /\ CharAt(s, 1) = "-" THEN PInt(0 - v) ELSE PInt(v)

-----------------------------------------------------------------------------
(* Sequencing.  Let(v, F) is "x = v; F(x)"; Try(v, F) is the same, unless    *)
(* v is a raised exception, which then is the result (it propagates).        *)

Let(v, F(_)) == F(v)
Try(v, F(_)) == IF IsRaise(v) THEN v ELSE F(v)

-----------------------------------------------------------------------------
(* Helpers of the transform *)

\* the (over, ball) of the two pieces of "<over>.<ball>"; (None, None) when
\* int() raises on either
OverBall(over_n, ball_n) ==
    IF IsRaise(over_n) \/ IsRaise(ball_n) THEN <<PyNone, PyNone>>
    ELSE <<over_n, ball_n>>

\* a variant of SplitPair: the first two pieces are taken, however many there are
SplitPair_FirstTwo(parts) == OverBall(PyInt(parts[1]), PyInt(parts[2]))

\* over_s, ball_s = ball_str.split("."): the unpacking raises unless two pieces
SplitPair(parts) ==
    IF Len(parts) # 2 THEN <<PyNone, PyNone>>
    ELSE OverBall(PyInt(parts[1]), PyInt(parts[2]))

\* split_over_ball: "<int>.<int>" -> (over, ball); "<int>" -> (over, 0);
\* any exception (a failed unpacking of split("."), a failed int()) -> (None, None)
split_over_ball(ball_str) ==
    IF Contains(ball_str, ".") THEN SplitPair(Split(ball_str, "."))
    ELSE OverBall(PyInt(ball_str), PInt(0))

\* the strings datetime.fromisoformat accepts, among those modelled, with the
\* date().isoformat() of each
IsoDates ==
    [s \in {"2022-01-03", "2022-01-04", "2022-01-03T10:00:00"} |->
        SubSeq(s, 1, 10)]

\* normalize_date, for a str: the ISO date, else the first 10 characters
NormalizeStr(d) ==
    IF ~IsStr(d) THEN PyNone
    ELSE IF d.s \in DOMAIN IsoDates THEN PStr(IsoDates[d.s])
    ELSE PStr(SubSeq(d.s, 1, IF Len(d.s) < 10 THEN Len(d.s) ELSE 10))

\* normalize_date
normalize_date(date_obj) ==
    IF date_obj.k = "none" THEN PyNone
    ELSE IF IsList(date_obj)
         THEN (IF date_obj.l # <<>> THEN NormalizeStr(date_obj.l[1]) ELSE PyNone)
    ELSE NormalizeStr(date_obj)

\* one normalized delivery: the tuple (over_num, ball_num, ev)
Tuple3(over_num, ball_num, ev) == [over |-> over_num, ball |-> ball_num, ev |-> ev]

\* parse_v1_innings: the tuple of one entry {ball_key: ev}
V1Tuple(ob, ev) == Tuple3(ob[1], ob[2], ev)

RECURSIVE V1Deliveries(_, _, _)
\* parse_v1_innings, the loop over data.get("deliveries", [])
V1Deliveries(entries, i, acc) ==
    IF i > Len(entries) THEN acc
    ELSE IF ~IsDict(entries[i]) \/ ~Truthy(entries[i])
         THEN V1Deliveries(entries, i + 1, acc)
    ELSE V1Deliveries(entries, i + 1,
            Append(acc, V1Tuple(split_over_ball(entries[i].ks[1]), entries[i].vs[1])))

\* a variant of NormInning: the position counts from 0
NormInning_FromZero(idx, team, ds) ==
    [inning_number |-> idx - 1, team |-> team, deliveries |-> ds]

\* one normalized inning
NormInning(idx, team, ds) == [inning_number |-> idx, team |-> team, deliveries |-> ds]

\* parse_v1_innings, one inning: name = list(inn.keys())[0]; data = inn[name]
V1Inning(idx, data) ==
    Try(Get(data, "team", PyNone), LAMBDA team :
    Let(Get(data, "deliveries", EmptyList), LAMBDA dl :
        IF ~Iterable(dl) THEN Raise("TypeError")
        ELSE Ok(NormInning(idx, team, V1Deliveries(Iter(dl), 1, <<>>)))))

RECURSIVE V1Loop(_, _, _)
\* parse_v1_innings, the loop over enumerate(innings_list, start=1)
V1Loop(items, idx, norm_innings) ==
    IF idx > Len(items) THEN Ok(norm_innings)
    ELSE IF ~IsDict(items[idx]) \/ ~Truthy(items[idx])
         THEN V1Loop(items, idx + 1, norm_innings)
    ELSE Try(V1Inning(idx, items[idx].vs[1]), LAMBDA one :
             V1Loop(items, idx + 1, Append(norm_innings, one.v)))

parse_v1_innings(innings_list) == V1Loop(Iter(innings_list), 1, <<>>)

RECURSIVE V2Balls(_, _, _, _)
\* parse_v2_innings, the loop over enumerate(over_blk.get("deliveries", []), start=1)
V2Balls(evs, over_num, i, acc) ==
    IF i > Len(evs) THEN acc
    ELSE V2Balls(evs, over_num, i + 1, Append(acc, Tuple3(over_num, PInt(i), evs[i])))

RECURSIVE V2Overs(_, _, _)
\* parse_v2_innings, the loop over inn.get("overs", [])
V2Overs(blks, b, acc) ==
    IF b > Len(blks) THEN Ok(acc)
    ELSE Try(Get(blks[b], "over", PyNone), LAMBDA over_num :
         Let(Get(blks[b], "deliveries", EmptyList), LAMBDA dl :
             IF ~Iterable(dl) THEN Raise("TypeError")
             ELSE V2Overs(blks, b + 1, V2Balls(Iter(dl), over_num, 1, acc))))

\* a variant of V2Inning: the deliveries are looked for under the inning itself
V2Inning_NoOvers(idx, inn) ==
    Try(Get(inn, "team", PyNone), LAMBDA team :
    Let(Get(inn, "deliveries", EmptyList), LAMBDA dl :
        IF ~Iterable(dl) THEN Raise("TypeError")
        ELSE Ok(NormInning(idx, team, V2Balls(Iter(dl), PyNone, 1, <<>>)))))

\* parse_v2_innings, one inning
V2Inning(idx, inn) ==
    Try(Get(inn, "team", PyNone), LAMBDA team :
    Let(Get(inn, "overs", EmptyList), LAMBDA ov :
        IF ~Iterable(ov) THEN Raise("TypeError")
        ELSE Try(V2Overs(Iter(ov), 1, <<>>), LAMBDA ds :
                 Ok(NormInning(idx, team, ds.v)))))

RECURSIVE V2Loop(_, _, _)
\* parse_v2_innings, the loop over enumerate(innings_list, start=1)
V2Loop(items, idx, norm_innings) ==
    IF idx > Len(items) THEN Ok(norm_innings)
    ELSE Try(V2Inning(idx, items[idx]), LAMBDA one :
             V2Loop(items, idx + 1, Append(norm_innings, one.v)))

parse_v2_innings(innings_list) == V2Loop(Iter(innings_list), 1, <<>>)

\* the dialect test of detect_and_parse_innings on the first entry
IsV2(first) == IsDict(first) /\ HasKey(first, "team") /\ HasKey(first, "overs")

\* detect_and_parse_innings: Ok(norm_innings) or the exception raised
detect_and_parse_innings(innings_list) ==
    IF ~Truthy(innings_list) THEN Ok(<<>>)
    ELSE IF IsDict(innings_list) THEN Raise("KeyError")      \* innings_list[0]
    ELSE IF ~Iterable(innings_list) THEN Raise("TypeError")  \* innings_list[0]
    ELSE IF IsV2(Iter(innings_list)[1]) THEN parse_v2_innings(innings_list)
    ELSE parse_v1_innings(innings_list)

-----------------------------------------------------------------------------
(* parse_match_json *)

\* the greatest i with s[i] = c, or 0
LastIndex(s, c) ==
    IF \A i \in 1..Len(s) : CharAt(s, i) # c THEN 0
    ELSE CHOOSE i \in 1..Len(s) :
            /\ CharAt(s, i) = c
            /\ \A h \in (i + 1)..Len(s) : CharAt(s, h) # c

\* os.path.basename
Basename(path) == SubSeq(path, LastIndex(path, "/") + 1, Len(path))

\* b[:dot], unless only dots precede the last "."
RootAt(b, dot) ==
    IF dot > 0 /\ \E i \in 1..(dot - 1) : CharAt(b, i) # "."
    THEN SubSeq(b, 1, dot - 1)
    ELSE b

\* os.path.splitext(b)[0]
StripExt(b) == RootAt(b, LastIndex(b, "."))

\* bowling_team = team2 if batting_team == team1 else team1
BowlingTeam(batting_team, team1, team2) ==
    IF batting_team = team1 THEN team2 ELSE team1

\* a variant of RunsIn: the total is the sum, whatever total the event gives
RunsIn_IgnoreTotal(runs) ==
    Try(Get(runs, "batter", PInt(0)), LAMBDA rb :
    Let(Get(runs, "extras", PInt(0)), LAMBDA rext :
    Try(Add(rb, rext), LAMBDA sum :
        Ok([rb |-> rb, rext |-> rext, rtot |-> sum]))))

\* rb, rext, rtot of runs = ev.get("runs") or {}
RunsIn(runs) ==
    Try(Get(runs, "batter", PInt(0)), LAMBDA rb :
    Let(Get(runs, "extras", PInt(0)), LAMBDA rext :
    Try(Add(rb, rext), LAMBDA sum :
        Ok([rb |-> rb, rext |-> rext, rtot |-> Get(runs, "total", sum)]))))

\* runs = ev.get("runs") or {}; rb, rext, rtot
RunsOf(ev) ==
    Try(Get(ev, "runs", PyNone), LAMBDA raw : RunsIn(Or(raw, EmptyDict)))

\* extras_type of extras_obj = ev.get("extras") or {}: its first key, if any
ExtrasTypeIn(extras_obj) ==
    IF ~Truthy(extras_obj) THEN PyNone
    ELSE IF ~IsDict(extras_obj) THEN Raise("AttributeError")
    ELSE PStr(extras_obj.ks[1])

ExtrasTypeOf(ev) ==
    Try(Get(ev, "extras", PyNone), LAMBDA raw : ExtrasTypeIn(Or(raw, EmptyDict)))

\* wk = wickets[0]; wicket_kind = wk.get("kind"); player_out = wk.get("player_out")
FirstWicket(wk) ==
    Try(Get(wk, "kind", PyNone), LAMBDA kind :
        Ok([wicket_flag |-> 1, wicket_kind |-> kind,
            player_out |-> Get(wk, "player_out", PyNone)]))

\* wicket_flag, wicket_kind, player_out, given wickets
WicketIn(wickets) ==
    IF IsList(wickets) /\ Truthy(wickets) THEN FirstWicket(wickets.l[1])
    ELSE Ok([wicket_flag |-> 0, wicket_kind |-> PyNone, player_out |-> PyNone])

\* wickets = ev.get("wickets") or ev.get("wicket"); ...
WicketOf(ev) ==
    Try(Get(ev, "wickets", PyNone), LAMBDA ws :
        WicketIn(Or(ws, Get(ev, "wicket", PyNone))))

\* the locals of the per-inning loop before its first delivery
ReduceStart ==
    [total_runs |-> PInt(0), total_wkts |-> 0,
     last_over |-> PInt(0), last_ball |-> PInt(0), rows |-> <<>>]

\* the dict appended to deliveries_rows
DeliveryRow(ctx, t, r, x, w) ==
    [match_id |-> ctx.match_id,
     inning_number |-> PInt(ctx.inning_number),
     overs |-> t.over,
     ball |-> t.ball,
     batting_team |-> ctx.batting_team,
     bowling_team |-> ctx.bowling_team,
     batter |-> Get(t.ev, "batter", PyNone),
     bowler |-> Get(t.ev, "bowler", PyNone),
     non_striker |-> Get(t.ev, "non_striker", PyNone),
     runs_batter |-> r.rb,
     runs_extras |-> r.rext,
     runs_total |-> r.rtot,
     extras_type |-> x,
     wicket_kind |-> w.wicket_kind,
     player_out |-> w.player_out]

\* one pass of "for over_num, ball_num, ev in inn['deliveries']"
ReduceStep(ctx, t, acc) ==
    Try(RunsOf(t.ev), LAMBDA r :
    Try(ExtrasTypeOf(t.ev), LAMBDA x :
    Try(WicketOf(t.ev), LAMBDA w :
    Try(Add(acc.total_runs, r.v.rtot), LAMBDA tr :
        Ok([total_runs |-> tr,
            total_wkts |-> acc.total_wkts + w.v.wicket_flag,
            last_over |-> IF t.over.k # "none" THEN t.over ELSE acc.last_over,
            last_ball |-> IF t.ball.k # "none" THEN t.ball ELSE acc.last_ball,
            rows |-> Append(acc.rows, DeliveryRow(ctx, t, r.v, x, w.v))])))))

RECURSIVE ReduceLoop(_, _, _, _)
\* the loop over inn["deliveries"]: Ok(locals) or the exception raised
ReduceLoop(ctx, ds, i, acc) ==
    IF i > Len(ds) THEN Ok(acc)
    ELSE Try(ReduceStep(ctx, ds[i], acc), LAMBDA nxt :
             ReduceLoop(ctx, ds, i + 1, nxt.v))

\* lo + lb / 6.0, in sixths of an over
SixthsOf(lo, lb) ==
    IF IsInt(lo) /\ IsInt(lb) THEN Float6(6 * lo.n + lb.n) ELSE Raise("TypeError")

\* overs_float = (last_over or 0) + (last_ball or 0) / 6.0
OversFloat(last_over, last_ball) ==
    SixthsOf(Or(last_over, PInt(0)), Or(last_ball, PInt(0)))

\* the dict appended to innings_rows
InningsRow(ctx, red, overs_float) ==
    [match_id |-> ctx.match_id,
     inning_number |-> PInt(ctx.inning_number),
     batting_team |-> ctx.batting_team,
     bowling_team |-> ctx.bowling_team,
     runs |-> red.total_runs,
     wickets |-> PInt(red.total_wkts),
     overs |-> overs_float]

\* the names the per-inning loop works under
InningCtx(match_id, inn, team1, team2) ==
    [match_id |-> match_id, inning_number |-> inn.inning_number,
     batting_team |-> inn.team,
     bowling_team |-> BowlingTeam(inn.team, team1, team2)]

\* one pass of "for inn in norm_innings": Ok([row, rows]) or the exception
OneInning(ctx, inn) ==
    Try(ReduceLoop(ctx, inn.deliveries, 1, ReduceStart), LAMBDA red :
    Try(OversFloat(red.v.last_over, red.v.last_ball), LAMBDA overs_float :
        Ok([row |-> InningsRow(ctx, red.v, overs_float), rows |-> red.v.rows])))

RECURSIVE InningsLoop(_, _, _, _, _, _, _)
\* "for inn in norm_innings": Ok([innings_rows, deliveries_rows]) or the exception
InningsLoop(norm, n, match_id, team1, team2, innings_rows, deliveries_rows) ==
    IF n > Len(norm)
    THEN Ok([innings_rows |-> innings_rows, deliveries_rows |-> deliveries_rows])
    ELSE Try(OneInning(InningCtx(match_id, norm[n], team1, team2), norm[n]),
             LAMBDA one :
                InningsLoop(norm, n + 1, match_id, team1, team2,
                            Append(innings_rows, one.v.row),
                            deliveries_rows \o one.v.rows))

\* (info.get(key, {}) or {}).get(sub)
SubField(info, key, sub) ==
    Try(Get(info, key, EmptyDict), LAMBDA raw : Get(Or(raw, EmptyDict), sub, PyNone))

\* the match_row dict
MatchRow(info, match_id, team1, team2) ==
    Try(Get(info, "match_type", PyNone), LAMBDA match_type :
    Try(SubField(info, "toss", "winner"), LAMBDA toss_winner :
    Try(SubField(info, "toss", "decision"), LAMBDA toss_decision :
    Try(SubField(info, "outcome", "winner"), LAMBDA winner :
    Try(SubField(info, "outcome", "result"), LAMBDA result :
        Ok([match_id |-> match_id,
            match_type |-> match_type,
            match_date |-> normalize_date(Get(info, "dates", PyNone)),
            venue |-> Get(info, "venue", PyNone),
            city |-> Get(info, "city", PyNone),
            country |-> Or(Get(info, "country", PyNone), PyNone),
            team1 |-> team1,
            team2 |-> team2,
            toss_winner |-> toss_winner,
            toss_decision |-> toss_decision,
            winner |-> winner,
            result |-> result,
            margin |-> PyNone]))))))

\* team1, team2 = (teams + [None, None])[:2]
TeamPair(teams_) ==
    Try(Add(teams_, PList(<<PyNone, PyNone>>)), LAMBDA padded :
        IF IsList(padded) THEN Ok(SubSeq(padded.l, 1, 2)) ELSE Raise("TypeError"))

\* parse_match_json, after match_row: the innings
ParseInnings(j, match_row) ==
    Try(detect_and_parse_innings(Get(j, "innings", EmptyList)), LAMBDA norm :
    Try(InningsLoop(norm.v, 1, match_row.match_id, match_row.team1,
                    match_row.team2, <<>>, <<>>), LAMBDA rows :
        Ok([match_row |-> match_row,
            innings_rows |-> rows.v.innings_rows,
            deliveries_rows |-> rows.v.deliveries_rows])))

\* parse_match_json: Ok([match_row, innings_rows, deliveries_rows]) or the
\* exception raised
parse_match_json(j, match_path) ==
    Try(Get(j, "info", EmptyDict), LAMBDA info :
    Try(Get(info, "match_id", PyNone), LAMBDA mid :
    Try(TeamPair(Get(info, "teams", EmptyList)), LAMBDA pair :
    Try(MatchRow(info, Or(mid, PStr(StripExt(Basename(match_path)))),
                 pair.v[1], pair.v[2]), LAMBDA match_row :
        ParseInnings(j, match_row.v)))))

-----------------------------------------------------------------------------
(* The store: the tables of SCHEMA_SQL behind the four persistence calls.    *)
(* SCHEMA_SQL names no ENGINE, so whether the FOREIGN KEY clauses are        *)
(* enforced (InnoDB) or parsed and ignored (MyISAM) is the server's default: *)
(* fkEnforced is either, fixed for a run.  Every call commits on its own.    *)

\* the FOREIGN KEY(col) REFERENCES teams(team_name) test: NULL always passes
TeamRefOk(tbl, v) == v.k = "none" \/ v \in tbl

\* FOREIGN KEY(match_id) REFERENCES matches(match_id)
MatchRefOk(tbl, v) == v.k = "none" \/ \E m \in tbl : m.match_id = v

\* whether a row of innings or deliveries references the match
HasChildren(inn, del, match_id) ==
    \/ \E i \in 1..Len(inn) : inn[i].match_id = match_id
    \/ \E i \in 1..Len(del) : del[i].match_id = match_id

\* matches after REPLACE INTO matches: the row of the same primary key is
\* deleted, the new row inserted
ReplaceInto(tbl, row) == {m \in tbl : m.match_id # row.match_id} \cup {row}

\* whether REPLACE INTO matches raises: deleting a parent row that children
\* reference (no ON DELETE clause: RESTRICT), or a team the row references
\* that is not in teams
ReplaceRaises(enforced, tms, tbl, inn, del, row) ==
    /\ enforced
    /\ \/ /\ \E m \in tbl : m.match_id = row.match_id
          /\ HasChildren(inn, del, row.match_id)
       \/ ~TeamRefOk(tms, row.team1)
       \/ ~TeamRefOk(tms, row.team2)
       \/ ~TeamRefOk(tms, row.toss_winner)
       \/ ~TeamRefOk(tms, row.winner)

\* whether INSERT INTO innings raises on one of the rows
InningsRaises(enforced, tms, tbl, rows) ==
    /\ enforced
    /\ \E i \in 1..Len(rows) :
          \/ ~MatchRefOk(tbl, rows[i].match_id)
          \/ ~TeamRefOk(tms, rows[i].batting_team)
          \/ ~TeamRefOk(tms, rows[i].bowling_team)

\* whether INSERT INTO deliveries raises on one of the rows
DeliveriesRaises(enforced, tbl, rows) ==
    /\ enforced
    /\ \E i \in 1..Len(rows) : ~MatchRefOk(tbl, rows[i].match_id)

-----------------------------------------------------------------------------
(* The batch of main() *)

D1(key, v) == PDict(<<key>>, <<v>>)
D2(k1, v1, k2, v2) == PDict(<<k1, k2>>, <<v1, v2>>)
D3(k1, v1, k2, v2, k3, v3) == PDict(<<k1, k2, k3>>, <<v1, v2, v3>>)

\* a delivery event with runs off the bat
BatEvent(b) == D2("batter", PStr("P"), "runs", D1("batter", PInt(b)))

\* a Dialect B inning of one over
InningB(team, evs) ==
    D2("team", PStr(team), "overs", PList(<<D2("over", PInt(0), "deliveries", PList(evs))>>))

\* a record: its teams, venue, outcome winner and innings
Record(tms, venue, winner, inns) ==
    D2("info", D3("teams", PList(tms), "venue", PStr(venue),
                  "outcome", D1("winner", PStr(winner))),
       "innings", PList(inns))

Garbage == [k |-> "bytes"]     \* bytes json.loads(fbytes.decode("utf-8")) rejects
Json(doc) == [k |-> "json", doc |-> doc]

AB == <<PStr("A"), PStr("B")>>

\* the archive members the batch is drawn from; two carry the same basename
Files ==
    { [name |-> "tests/m1.json",
       fbytes |-> Json(Record(AB, "V1", "A", <<InningB("A", <<BatEvent(4)>>)>>))],
      [name |-> "odis/m1.json",
       fbytes |-> Json(Record(AB, "V2", "B", <<InningB("B", <<BatEvent(1), BatEvent(6)>>)>>))],
      [name |-> "odis/m2.json",
       fbytes |-> Json(Record(AB, "V1", "A", <<>>))],
      [name |-> "t20s/m3.json",
       fbytes |-> Json(Record(AB, "V3", "B", <<InningB("C", <<BatEvent(2)>>)>>))],
      [name |-> "t20s/m4.json", fbytes |-> Garbage],
      [name |-> "tests/m5.json",
       fbytes |-> Json(Record(AB, "V1", "A", <<InningB("A", <<>>), PStr("junk")>>))] }

MaxFiles == 3

RECURSIVE SeqsUpTo(_, _)
\* the sequences over S of length at most n
SeqsUpTo(S, n) ==
    IF n = 0 THEN {<<>>}
    ELSE LET shorter == SeqsUpTo(S, n - 1)
         IN shorter \cup {Append(q, x) : q \in shorter, x \in S}

OutDir == "./cricsheet_sample"

\* os.path.join(args.out, os.path.basename(name))
OutJsonPath(name) == OutDir \o "/" \o Basename(name)

NoCur == [j |-> PyNone, match_row |-> PyNone, innings_rows |-> <<>>,
          deliveries_rows |-> <<>>, ti |-> 0, err |-> ""]

\* pure-function variables, unused by main()
PureIdle == /\ input = PyNone
            /\ output = PyNone

MainInit ==
    /\ fkEnforced \in BOOLEAN
    /\ samples \in SeqsUpTo(Files, MaxFiles)
    /\ cursor = 0
    /\ pc = "loop"
    /\ cur = NoCur
    /\ teams = {}
    /\ matches = {}
    /\ innings = <<>>
    /\ deliveries = <<>>
    /\ notes = <<>>
    /\ total_matches = 0
    /\ history = <<>>

Init == MainInit /\ PureIdle

\* the except clause is entered with exception e
Except(e) ==
    /\ pc' = "except"
    /\ cur' = [cur EXCEPT !.err = e]

\* for name, fbytes in samples: total_matches += 1; the file is written out
BeginFile ==
    /\ pc = "loop"
    /\ cursor < Len(samples)
    /\ cursor' = cursor + 1
    /\ total_matches' = total_matches + 1
    /\ pc' = "decode"
    /\ cur' = NoCur
    /\ history' = Append(history, [match_id |-> PyNone, match_row |-> PyNone,
                                   wrote |-> <<>>, ins |-> <<>>, dels |-> <<>>])
    /\ UNCHANGED <<fkEnforced, samples, storeVars, notes, pureVars>>

\* j = json.loads(fbytes.decode("utf-8"))
Decode ==
    /\ pc = "decode"
    /\ IF samples[cursor].fbytes.k = "bytes"
       THEN Except("JSONDecodeError")
       ELSE /\ pc' = "parse"
            /\ cur' = [cur EXCEPT !.j = samples[cursor].fbytes.doc]
    /\ UNCHANGED history
    /\ UNCHANGED <<fkEnforced, samples, cursor, storeVars, notes, total_matches,
                   pureVars>>

\* the assignment of parse_match_json's result r, or its exception
Parsed(r) ==
    IF IsRaise(r)
    THEN /\ Except(r.e)
         /\ UNCHANGED history
    ELSE /\ pc' = "teams"
         /\ cur' = [cur EXCEPT !.match_row = r.v.match_row,
                               !.innings_rows = r.v.innings_rows,
                               !.deliveries_rows = r.v.deliveries_rows,
                               !.ti = 1]
         /\ history' = [history EXCEPT ![cursor].match_id = r.v.match_row.match_id,
                                       ![cursor].match_row = r.v.match_row]

\* parse_match_json(j, out_json_path) for each archive member that decodes,
\* tabulated
Parses ==
    [f \in {g \in Files : g.fbytes.k = "json"} |->
        parse_match_json(f.fbytes.doc, OutJsonPath(f.name))]

\* match_row, innings_rows, deliveries_rows = parse_match_json(j, out_json_path)
Parse ==
    /\ pc = "parse"
    /\ Parsed(Parses[samples[cursor]])
    /\ UNCHANGED <<fkEnforced, samples, cursor, storeVars, notes, total_matches,
                   pureVars>>

\* the names main() hands to upsert_team, in order
TeamArgs(match_row) ==
    <<match_row.team1, match_row.team2, match_row.toss_winner, match_row.winner>>

\* teams after upsert_team(con, team_name): INSERT IGNORE, skipped for a falsy name
upsert_team(tbl, team_name) ==
    IF ~Truthy(team_name) THEN tbl ELSE tbl \cup {team_name}

\* one pass of "for t in [...]: upsert_team(con, t)"
UpsertTeam ==
    /\ pc = "teams"
    /\ teams' = upsert_team(teams, TeamArgs(cur.match_row)[cur.ti])
    /\ IF cur.ti < Len(TeamArgs(cur.match_row))
       THEN /\ cur' = [cur EXCEPT !.ti = cur.ti + 1]
            /\ pc' = "teams"
       ELSE /\ cur' = cur
            /\ pc' = "match"
    /\ history' = [history EXCEPT ![cursor].wrote = Append(@, "teams")]
    /\ UNCHANGED <<fkEnforced, samples, cursor, matches, innings, deliveries,
                   notes, total_matches, pureVars>>

\* a variant of PrintFailed: the except clause lets the exception escape main()
PrintFailed_Reraise ==
    /\ pc = "except"
    /\ pc' = "crashed"
    /\ UNCHANGED <<fkEnforced, samples, cursor, cur, storeVars, notes,
                   total_matches, history, pureVars>>

\* insert_match(con, match_row): REPLACE INTO matches, then commit
InsertMatch ==
    /\ pc = "match"
    /\ IF ReplaceRaises(fkEnforced, teams, matches, innings, deliveries, cur.match_row)
       THEN /\ Except("IntegrityError")
            /\ UNCHANGED <<matches, history>>
       ELSE /\ matches' = ReplaceInto(matches, cur.match_row)
            /\ pc' = "innings"
            /\ cur' = cur
            /\ history' = [history EXCEPT ![cursor].wrote = Append(@, "match")]
    /\ UNCHANGED <<fkEnforced, samples, cursor, teams, innings, deliveries,
                   notes, total_matches, pureVars>>

\* insert_innings(con, innings_rows): nothing for no rows, else one INSERT of
\* all the rows, then commit
InsertInnings ==
    /\ pc = "innings"
    /\ IF InningsRaises(fkEnforced, teams, matches, cur.innings_rows)
       THEN /\ Except("IntegrityError")
            /\ UNCHANGED <<innings, history>>
       ELSE /\ innings' = innings \o cur.innings_rows
            /\ pc' = "deliveries"
            /\ cur' = cur
            /\ history' = [history EXCEPT ![cursor].wrote = Append(@, "innings"),
                                          ![cursor].ins = cur.innings_rows]
    /\ UNCHANGED <<fkEnforced, samples, cursor, teams, matches, deliveries,
                   notes, total_matches, pureVars>>

\* insert_deliveries(con, deliveries_rows)
InsertDeliveries ==
    /\ pc = "deliveries"
    /\ IF DeliveriesRaises(fkEnforced, matches, cur.deliveries_rows)
       THEN /\ Except("IntegrityError")
            /\ UNCHANGED <<deliveries, history>>
       ELSE /\ deliveries' = deliveries \o cur.deliveries_rows
            /\ pc' = "loaded"
            /\ cur' = cur
            /\ history' = [history EXCEPT ![cursor].wrote = Append(@, "deliveries"),
                                          ![cursor].dels = cur.deliveries_rows]
    /\ UNCHANGED <<fkEnforced, samples, cursor, teams, matches, innings,
                   notes, total_matches, pureVars>>

\* print(f"Loaded: {name} -> match_id=... | innings=... | deliveries=...")
PrintLoaded ==
    /\ pc = "loaded"
    /\ notes' = Append(notes, [kind |-> "Loaded", name |-> samples[cursor].name,
                               match_id |-> cur.match_row.match_id,
                               innings |-> Len(cur.innings_rows),
                               deliveries |-> Len(cur.deliveries_rows)])
    /\ pc' = "loop"
    /\ UNCHANGED <<fkEnforced, samples, cursor, cur, storeVars, total_matches,
                   history, pureVars>>

\* except Exception as e: print(f"Failed to parse {name}: {e}")
PrintFailed ==
    /\ pc = "except"
    /\ notes' = Append(notes, [kind |-> "Failed", name |-> samples[cursor].name,
                               cause |-> cur.err])
    /\ pc' = "loop"
    /\ UNCHANGED <<fkEnforced, samples, cursor, cur, storeVars, total_matches,
                   history, pureVars>>

\* after the last file: print("Done. Matches processed: ...")
Finish ==
    /\ pc = "loop"
    /\ cursor = Len(samples)
    /\ pc' = "done"
    /\ UNCHANGED <<fkEnforced, samples, cursor, cur, storeVars, notes,
                   total_matches, history, pureVars>>

Next ==
    \/ BeginFile
    \/ Decode
    \/ Parse
    \/ UpsertTeam
    \/ InsertMatch
    \/ InsertInnings
    \/ InsertDeliveries
    \/ PrintLoaded
    \/ PrintFailed
    \/ Finish

Spec == Init /\ [][Next]_vars

\* main() is one thread that runs each statement it reaches
FairSpec == Spec /\ WF_vars(Next)

-----------------------------------------------------------------------------
(* Claims about the ingestion loop *)

\* C1: in every state of the store, every row written references rows that
\* exist: each non-null team of a Match row (team1, team2, toss_winner, winner)
\* and of an Innings row (batting_team, bowling_team) is in teams, and the
\* match_id of each Innings and Delivery row is in matches.
C1_ReferentialOrdering ==
    /\ \A m \in matches :
          /\ TeamRefOk(teams, m.team1)
          /\ TeamRefOk(teams, m.team2)
          /\ TeamRefOk(teams, m.toss_winner)
          /\ TeamRefOk(teams, m.winner)
    /\ \A i \in 1..Len(innings) :
          /\ MatchRefOk(matches, innings[i].match_id)
          /\ TeamRefOk(teams, innings[i].batting_team)
          /\ TeamRefOk(teams, innings[i].bowling_team)
    /\ \A i \in 1..Len(deliveries) : MatchRefOk(matches, deliveries[i].match_id)

\* the files main() is done with
Finished == IF pc \in {"loop", "done"} THEN cursor ELSE cursor - 1

\* what decoding and transforming file f come to: an exception, or the rows
Transformed(f) ==
    IF f.fbytes.k = "bytes" THEN Raise("JSONDecodeError")
    ELSE parse_match_json(f.fbytes.doc, OutJsonPath(f.name))

\* the note of finished file i fits what happened to the file
NoteFits(i) ==
    /\ notes[i].name = samples[i].name
    /\ IF IsRaise(Transformed(samples[i]))
       THEN /\ notes[i].kind = "Failed"
            /\ notes[i].cause = Transformed(samples[i]).e
            /\ history[i].wrote = <<>>
       ELSE \/ /\ notes[i].kind = "Loaded"
               /\ history[i].wrote[Len(history[i].wrote)] = "deliveries"
            \/ /\ notes[i].kind = "Failed"
               /\ notes[i].cause = "IntegrityError"
               /\ history[i].wrote[Len(history[i].wrote)] # "deliveries"

C2_State ==
    /\ pc # "crashed"
    /\ Len(notes) = Finished
    /\ \A i \in 1..Len(notes) : NoteFits(i)
    /\ pc = "done" => /\ Len(notes) = Len(samples)
                      /\ total_matches = Len(samples)

\* a step that raises writes nothing, and the except clause goes on to the
\* next file without touching the store
C2_Step ==
    /\ pc' = "except" => UNCHANGED storeVars
    /\ pc = "except" => /\ UNCHANGED storeVars
                        /\ pc' = "loop"
                        /\ Len(notes') = Len(notes) + 1

\* C2: a file whose decoding, transforming or persisting raises has its
\* remaining steps skipped and a failure note naming it and the cause; the loop
\* then goes on, every file of the batch is attempted and the run reaches Done.
C2_ErrorsLocalToMatch ==
    /\ [](C2_State)
    /\ [][C2_Step]_vars
    /\ <>(pc = "done")

\* C2's case: a run that ended after a decode failure, a persistence failure
\* and, after both, a loaded file
C2_Witness ==
    /\ pc = "done"
    /\ \E i, n, l \in 1..Len(notes) :
          /\ i < l /\ n < l
          /\ notes[i].kind = "Failed" /\ notes[i].cause = "JSONDecodeError"
          /\ notes[n].kind = "Failed" /\ notes[n].cause = "IntegrityError"
          /\ notes[l].kind = "Loaded"

\* the last of the first n ingestions whose transform produced a Match row for
\* match_id, or 0
LastProducing(match_id, n) ==
    IF \A i \in 1..n : history[i].match_id # match_id THEN 0
    ELSE CHOOSE i \in 1..n :
            /\ history[i].match_id = match_id
            /\ \A h \in (i + 1)..n : history[h].match_id # match_id

RECURSIVE AllInserted(_, _)
\* the rows the first n ingestions inserted into a child table, in order
AllInserted(field, n) ==
    IF n = 0 THEN <<>>
    ELSE AllInserted(field, n - 1) \o
         (IF field = "ins" THEN history[n].ins ELSE history[n].dels)

\* C3: between ingestions the Match set holds at most one row per match
\* identifier, that row is the one the most recent ingestion of the identifier
\* produced, and the Innings and Delivery rows of earlier ingestions are all
\* still there, unchanged, beside the new ones.
C3_LastWriteWins ==
    pc \in {"loop", "done"} =>
        /\ \A m1, m2 \in matches : m1.match_id = m2.match_id => m1 = m2
        /\ \A m \in matches :
              LastProducing(m.match_id, cursor) # 0
              /\ m = history[LastProducing(m.match_id, cursor)].match_row
        /\ innings = AllInserted("ins", cursor)
        /\ deliveries = AllInserted("dels", cursor)

-----------------------------------------------------------------------------
(* The transform as a pure function: inputs built up from bounded sets, then *)
(* parse_match_json applied.  main() stands idle in these specifications.    *)

MainIdle ==
    /\ fkEnforced = FALSE
    /\ samples = <<>>
    /\ cursor = 0
    /\ pc = "idle"
    /\ cur = NoCur
    /\ teams = {}
    /\ matches = {}
    /\ innings = <<>>
    /\ deliveries = <<>>
    /\ notes = <<>>
    /\ total_matches = 0
    /\ history = <<>>

MatchPath == OutDir \o "/1001.json"

RECURSIVE IntStr(_)
\* str(n), n >= 0
IntStr(n) ==
    IF n < 10 THEN SubSeq("0123456789", n + 1, n + 1)
    ELSE IntStr(n \div 10) \o SubSeq("0123456789", (n % 10) + 1, (n % 10) + 1)

\* a Dialect A inning: {"<label>": {"team": ..., "deliveries": [...]}}
InningA(label, team, entries) ==
    D1(label, D2("team", PStr(team), "deliveries", PList(entries)))

\* a dismissal
Wkt(kind, player_out) == D2("kind", PStr(kind), "player_out", PStr(player_out))
W1 == Wkt("bowled", "X")
W2 == Wkt("run out", "Y")

\* an event with 4 off the bat and a dismissal
WicketEvent == D3("batter", PStr("P"), "runs", D1("batter", PInt(4)),
                  "wickets", PList(<<W1>>))

-----------------------------------------------------------------------------
(* Ball labels *)

MaxLabelLen == 4
Alphabet == {"0", "1", ".", "x", "y", "-"}

\* a Dialect A record of one inning of two deliveries, the second under label
LabelRecord(label) ==
    Record(AB, "V1", "A",
           <<InningA("1st innings", "A",
                     <<D1("0.3", BatEvent(1)), D1(label, WicketEvent)>>)>>)

LabelInit ==
    /\ MainIdle
    /\ input = [label |-> ""]
    /\ output = PyNone

\* the archive holds a label one character longer
TypeChar ==
    /\ output = PyNone
    /\ Len(input.label) < MaxLabelLen
    /\ \E c \in Alphabet : input' = [label |-> input.label \o c]
    /\ UNCHANGED <<output, mainVars>>

\* split_over_ball on the label, and parse_match_json on the record holding it
ApplyLabel ==
    /\ output = PyNone
    /\ output' = [ob |-> split_over_ball(input.label),
                  parsed |-> parse_match_json(LabelRecord(input.label), MatchPath)]
    /\ UNCHANGED <<input, mainVars>>

LabelNext == TypeChar \/ ApplyLabel

LabelSpec == LabelInit /\ [][LabelNext]_vars

\* whether s is one or more decimal digits
C8_AllDigits(s) == Len(s) >= 1 /\ \A i \in 1..Len(s) : CharAt(s, i) \in Digits

\* whether s reads as "<int>": digits, after an optional sign
C8_IsInt(s) ==
    \/ C8_AllDigits(s)
    \/ Len(s) >= 2 /\ CharAt(s, 1) \in {"-", "+"} /\ C8_AllDigits(Tail(s))

RECURSIVE C8_Magnitude(_)
\* the number the digits s denote
C8_Magnitude(s) ==
    IF Len(s) = 0 THEN 0
    ELSE 10 * C8_Magnitude(SubSeq(s, 1, Len(s) - 1)) + DigitVal(CharAt(s, Len(s)))

\* the number "<int>" denotes
C8_IntOf(s) ==
    IF CharAt(s, 1) = "-" THEN PInt(0 - C8_Magnitude(Tail(s)))
    ELSE IF CharAt(s, 1) = "+" THEN PInt(C8_Magnitude(Tail(s)))
    ELSE PInt(C8_Magnitude(s))

C8_Dots(s) == {i \in 1..Len(s) : CharAt(s, i) = "."}
C8_Left(s) == SubSeq(s, 1, (CHOOSE i \in C8_Dots(s) : TRUE) - 1)
C8_Right(s) == SubSeq(s, (CHOOSE i \in C8_Dots(s) : TRUE) + 1, Len(s))

\* what the claim says split_over_ball returns
C8_Expected(s) ==
    IF Cardinality(C8_Dots(s)) = 1 /\ C8_IsInt(C8_Left(s)) /\ C8_IsInt(C8_Right(s))
    THEN <<C8_IntOf(C8_Left(s)), C8_IntOf(C8_Right(s))>>
    ELSE IF C8_Dots(s) = {} /\ C8_IsInt(s) THEN <<C8_IntOf(s), PInt(0)>>
    ELSE <<PyNone, PyNone>>

\* C8: split_over_ball returns (over, ball) for "<int>.<int>", (over, 0) for
\* "<int>" and (None, None) for every other label, never raising; whatever the
\* label, its delivery is a Delivery row (over and ball as split, null when
\* unparseable) and counts in the inning's runs and wickets.
C8_BallLabelTotal ==
    output # PyNone =>
        /\ output.ob = C8_Expected(input.label)
        /\ output.parsed.k = "ok"
        /\ Len(output.parsed.v.deliveries_rows) = 2
        /\ output.parsed.v.deliveries_rows[2].overs = output.ob[1]
        /\ output.parsed.v.deliveries_rows[2].ball = output.ob[2]
        /\ output.parsed.v.deliveries_rows[2].runs_total = PInt(4)
        /\ output.parsed.v.deliveries_rows[2].wicket_kind = PStr("bowled")
        /\ output.parsed.v.innings_rows[1].runs = PInt(5)
        /\ output.parsed.v.innings_rows[1].wickets = PInt(1)

\* C8's case: the label "x.y", split to (None, None), its delivery emitted
C8_Witness ==
    /\ output # PyNone
    /\ input.label = "x.y"
    /\ output.ob = <<PyNone, PyNone>>
    /\ Len(output.parsed.v.deliveries_rows) = 2
    /\ output.parsed.v.deliveries_rows[2].overs = PyNone

-----------------------------------------------------------------------------
(* Wickets *)

MaxWicketBalls == 2

Absent == [k |-> "absent"]

\* what an event may hold under "wickets" and under "wicket"
WicketOpts ==
    {Absent, PyNone, EmptyList, PList(<<W1>>), PList(<<W2, W1>>), W2}

\* the keys and values of a dict, but for the absent ones
Present(ks, vs) ==
    PDict(SelectSeq(ks, LAMBDA key : Lookup(PDict(ks, vs), key) # Absent),
          SelectSeq(vs, LAMBDA v : v # Absent))

\* an event with 1 off the bat, ws under "wickets" and w under "wicket"
EventW(ws, w) ==
    Present(<<"batter", "runs", "wickets", "wicket">>,
            <<PStr("P"), D1("batter", PInt(1)), ws, w>>)

\* a Dialect B record of one inning of one over
RecordB1(evs) == Record(AB, "V1", "A", <<InningB("A", evs)>>)

WicketInit ==
    /\ MainIdle
    /\ input = [evs |-> <<>>]
    /\ output = PyNone

\* the inning holds one more delivery
AddWicketBall ==
    /\ output = PyNone
    /\ Len(input.evs) < MaxWicketBalls
    /\ \E ws \in WicketOpts, w \in WicketOpts :
          input' = [evs |-> Append(input.evs, EventW(ws, w))]
    /\ UNCHANGED <<output, mainVars>>

ApplyWickets ==
    /\ output = PyNone
    /\ output' = parse_match_json(RecordB1(input.evs), MatchPath)
    /\ UNCHANGED <<input, mainVars>>

WicketNext == AddWicketBall \/ ApplyWickets

WicketSpec == WicketInit /\ [][WicketNext]_vars

\* ev[key] if the event holds key, else None
C7_Field(ev, key) == IF HasKey(ev, key) THEN Lookup(ev, key) ELSE PyNone

\* whether the event holds a non-empty list under key
C7_NonEmptyList(ev, key) ==
    /\ HasKey(ev, key)
    /\ IsList(Lookup(ev, key))
    /\ Lookup(ev, key).l # <<>>

\* the claim's wicket test: either field is a non-empty list
C7_EitherList(ev) == C7_NonEmptyList(ev, "wickets") \/ C7_NonEmptyList(ev, "wicket")

\* the list the claim reads the dismissal from
C7_ThatList(ev) ==
    IF C7_NonEmptyList(ev, "wickets") THEN Lookup(ev, "wickets") ELSE Lookup(ev, "wicket")

\* the Delivery row of a counted wicket reads the first entry of list
C7_RowReads(row, list) ==
    /\ row.wicket_kind = C7_Field(list.l[1], "kind")
    /\ row.player_out = C7_Field(list.l[1], "player_out")

C7_RowNull(row) == row.wicket_kind = PyNone /\ row.player_out = PyNone

\* C7: a wicket is counted iff "wickets" or "wicket" is present and a
\* non-empty list; it counts 1 whatever the list's length, its row takes
\* wicket_kind and player_out from the list's first entry; every other
\* delivery counts 0 with both fields null.
C7_WicketDetection ==
    output # PyNone =>
        /\ output.k = "ok"
        /\ \A i \in 1..Len(input.evs) :
              IF C7_EitherList(input.evs[i])
              THEN C7_RowReads(output.v.deliveries_rows[i], C7_ThatList(input.evs[i]))
              ELSE C7_RowNull(output.v.deliveries_rows[i])
        /\ output.v.innings_rows[1].wickets =
              PInt(Cardinality({i \in 1..Len(input.evs) : C7_EitherList(input.evs[i])}))

-----------------------------------------------------------------------------
(* Runs *)

MaxMoreBalls == 3

\* an event with the runs object given by its keys and values
RunsEvent(ks, vs) == D2("batter", PStr("P"), "runs", PDict(ks, vs))

\* the deliveries an inning may be given
RunEvents ==
    { D1("batter", PStr("P")),
      D2("batter", PStr("P"), "runs", PyNone),
      BatEvent(0),
      BatEvent(4),
      RunsEvent(<<"batter", "extras">>, <<PInt(1), PInt(1)>>),
      RunsEvent(<<"extras">>, <<PInt(2)>>),
      RunsEvent(<<"batter", "extras", "total">>, <<PInt(1), PInt(1), PInt(5)>>),
      RunsEvent(<<"total">>, <<PInt(3)>>) }

\* batter runs 0, 4, 1, 6, 0, 2 with no extras
SixBalls ==
    <<BatEvent(0), BatEvent(4), BatEvent(1), BatEvent(6), BatEvent(0), BatEvent(2)>>

\* a Dialect B record of two innings, the second of one delivery of 6
RecordB2(evs) ==
    Record(AB, "V1", "A", <<InningB("A", evs), InningB("B", <<BatEvent(6)>>)>>)

RunsInit ==
    /\ MainIdle
    /\ input \in {[base |-> 0, evs |-> <<>>], [base |-> 6, evs |-> SixBalls]}
    /\ output = PyNone

\* the first inning holds one more delivery
AddRunsBall ==
    /\ output = PyNone
    /\ Len(input.evs) < input.base + MaxMoreBalls
    /\ \E ev \in RunEvents : input' = [input EXCEPT !.evs = Append(@, ev)]
    /\ UNCHANGED <<output, mainVars>>

ApplyRuns ==
    /\ output = PyNone
    /\ output' = parse_match_json(RecordB2(input.evs), MatchPath)
    /\ UNCHANGED <<input, mainVars>>

RunsNext == AddRunsBall \/ ApplyRuns

RunsSpec == RunsInit /\ [][RunsNext]_vars

\* the runs object of an event, {} when absent or falsy
C9_Runs(ev) ==
    IF HasKey(ev, "runs") /\ IsDict(Lookup(ev, "runs")) THEN Lookup(ev, "runs")
    ELSE EmptyDict

\* runs[key], default 0
C9_Num(ev, key) ==
    IF HasKey(C9_Runs(ev), key) THEN Lookup(C9_Runs(ev), key).n ELSE 0

\* the total the claim gives a delivery
C9_Total(ev) ==
    IF HasKey(C9_Runs(ev), "total") THEN C9_Num(ev, "total")
    ELSE C9_Num(ev, "batter") + C9_Num(ev, "extras")

RECURSIVE C9_Sum(_, _, _)
\* the sum of runs_total over the Delivery rows of inning n among rows[1..i]
C9_Sum(rows, n, i) ==
    IF i = 0 THEN 0
    ELSE C9_Sum(rows, n, i - 1) +
         (IF rows[i].inning_number = PInt(n) THEN rows[i].runs_total.n ELSE 0)

\* C9: each Delivery row has runs_batter = runs.batter (default 0),
\* runs_extras = runs.extras (default 0) and runs_total = runs.total if given,
\* else their sum; an Innings row's runs is the sum of runs_total over the
\* inning's Delivery rows, in order; an inning with no delivery has runs 0 and
\* wickets 0.
C9_RunAccumulation ==
    output # PyNone =>
        /\ output.k = "ok"
        /\ Len(output.v.deliveries_rows) = Len(input.evs) + 1
        /\ \A i \in 1..Len(input.evs) :
              /\ output.v.deliveries_rows[i].inning_number = PInt(1)
              /\ output.v.deliveries_rows[i].runs_batter = PInt(C9_Num(input.evs[i], "batter"))
              /\ output.v.deliveries_rows[i].runs_extras = PInt(C9_Num(input.evs[i], "extras"))
              /\ output.v.deliveries_rows[i].runs_total = PInt(C9_Total(input.evs[i]))
        /\ \A n \in 1..2 :
              output.v.innings_rows[n].runs =
                 PInt(C9_Sum(output.v.deliveries_rows, n, Len(output.v.deliveries_rows)))
        /\ output.v.innings_rows[2].runs = PInt(6)
        /\ input.evs = <<>> => /\ output.v.innings_rows[1].runs = PInt(0)
                               /\ output.v.innings_rows[1].wickets = PInt(0)

\* C9's case: batter runs 0, 4, 1, 6, 0, 2 with no extras give runs 13, wickets 0
C9_Witness ==
    /\ output # PyNone
    /\ input.evs = SixBalls
    /\ output.v.innings_rows[1].runs = PInt(13)
    /\ output.v.innings_rows[1].wickets = PInt(0)
    /\ Len(output.v.deliveries_rows) = 7

-----------------------------------------------------------------------------
(* Inning lists in both dialects *)

MaxEntries == 2
MaxTeams == 2

TeamNames == <<"A", "B", "C", "D">>

\* the over-by-over delivery events an inning may hold
Overs ==
    << <<>>,
       << <<BatEvent(4), WicketEvent>> >>,
       << <<BatEvent(1)>>,
          <<RunsEvent(<<"total">>, <<PInt(3)>>), EventW(Absent, PList(<<W2>>)), BatEvent(6)>> >> >>

\* an inning of the logical match: its batting team and its deliveries
Good(team, b) == [kind |-> "good", team |-> team, balls |-> b]

\* an entry that is no inning: {} ("empty"), "junk" ("nonmap"),
\* {"1st innings": "junk"} ("hollow") or {"1st innings": {}} ("bare")
Malformed(kind) == [kind |-> kind, team |-> "", balls |-> 1]

MalformedKinds == {"empty", "nonmap", "hollow", "bare"}

MalformedDoc(e) ==
    CASE e.kind = "empty" -> EmptyDict
      [] e.kind = "nonmap" -> PStr("junk")
      [] e.kind = "hollow" -> D1("1st innings", PStr("junk"))
      [] e.kind = "bare" -> D1("1st innings", EmptyDict)

\* Dialect A: the deliveries of over number o, each {"<o>.<i>": ev}
LabelledOver(o, evs) ==
    [i \in 1..Len(evs) |-> D1(IntStr(o) \o "." \o IntStr(i), evs[i])]

RECURSIVE LabelledOvers(_, _)
\* Dialect A: the deliveries list of overs[1..n], over numbers from 0
LabelledOvers(overs, n) ==
    IF n = 0 THEN <<>>
    ELSE LabelledOvers(overs, n - 1) \o LabelledOver(n - 1, overs[n])

\* Dialect B: the over blocks {"over": o, "deliveries": [ev, ...]}
OverBlocks(overs) ==
    [o \in 1..Len(overs) |-> D2("over", PInt(o - 1), "deliveries", PList(overs[o]))]

\* the entry at position idx of the Dialect A inning list
EntryA(e, idx) ==
    IF e.kind = "good"
    THEN InningA(IntStr(idx) \o " innings", e.team,
                 LabelledOvers(Overs[e.balls], Len(Overs[e.balls])))
    ELSE MalformedDoc(e)

\* the entry of the Dialect B inning list
EntryB(e) ==
    IF e.kind = "good"
    THEN D2("team", PStr(e.team), "overs", PList(OverBlocks(Overs[e.balls])))
    ELSE MalformedDoc(e)

ListA(entries) == PList([i \in 1..Len(entries) |-> EntryA(entries[i], i)])
ListB(entries) == PList([i \in 1..Len(entries) |-> EntryB(entries[i])])

\* the record with the given info.teams and inning list
RecordOf(tms, inns) ==
    D2("info", D2("teams", PList(tms), "venue", PStr("V1")), "innings", inns)

\* both encodings, normalized and parsed
BothParsed(tms, la, lb) ==
    [na |-> detect_and_parse_innings(la),
     nb |-> detect_and_parse_innings(lb),
     a |-> parse_match_json(RecordOf(tms, la), MatchPath),
     b |-> parse_match_json(RecordOf(tms, lb), MatchPath)]

StructInit ==
    /\ MainIdle
    /\ input = [tms |-> <<>>, entries |-> <<>>]
    /\ output = PyNone

\* info.teams names one more team
AddTeam ==
    /\ output = PyNone
    /\ Len(input.tms) < MaxTeams
    /\ Len(input.tms) < Len(TeamNames)
    /\ input' = [input EXCEPT !.tms = Append(@, PStr(TeamNames[Len(@) + 1]))]
    /\ UNCHANGED <<output, mainVars>>

\* the inning list holds one more inning
AddGoodInning ==
    /\ output = PyNone
    /\ Len(input.entries) < MaxEntries
    /\ \E t \in {"A", "B", "C"}, b \in DOMAIN Overs :
          input' = [input EXCEPT !.entries = Append(@, Good(t, b))]
    /\ UNCHANGED <<output, mainVars>>

\* the inning list holds one more entry that is no inning
AddMalformed ==
    /\ output = PyNone
    /\ Len(input.entries) < MaxEntries
    /\ \E k \in MalformedKinds :
          input' = [input EXCEPT !.entries = Append(@, Malformed(k))]
    /\ UNCHANGED <<output, mainVars>>

ParseBoth ==
    /\ output = PyNone
    /\ output' = BothParsed(input.tms, ListA(input.entries), ListB(input.entries))
    /\ UNCHANGED <<input, mainVars>>

StructNext == AddTeam \/ AddGoodInning \/ AddMalformed \/ ParseBoth

StructSpec == StructInit /\ [][StructNext]_vars

\* the innings among the entries, in order
GoodOnly(entries) == SelectSeq(entries, LAMBDA e : e.kind = "good")

AllGood(entries) == \A i \in 1..Len(entries) : entries[i].kind = "good"

\* the number of deliveries of an inning
BallCount(e) == Len(LabelledOvers(Overs[e.balls], Len(Overs[e.balls])))

\* the normalized innings n are those of the well-formed entries, in order
C4_OnlyGood(n, entries) ==
    /\ n.k = "ok"
    /\ Len(n.v) = Len(GoodOnly(entries))
    /\ \A k \in 1..Len(n.v) :
          /\ n.v[k].team = PStr(GoodOnly(entries)[k].team)
          /\ Len(n.v[k].deliveries) = BallCount(GoodOnly(entries)[k])

\* C4: for every inning list in either dialect, detect_and_parse_innings does
\* not raise, an entry that is empty or no well-formed inning mapping
\* contributes no inning and no delivery, and the other entries are still
\* processed.
C4_MalformedSkipped ==
    output # PyNone =>
        /\ C4_OnlyGood(output.na, input.entries)
        /\ C4_OnlyGood(output.nb, input.entries)

\* C5: a valid Dialect A record and a valid Dialect B record of the same
\* logical match give the same number of Delivery rows and, inning by inning,
\* the same cumulative runs and the same cumulative wickets.
C5_DialectIndependence ==
    (output # PyNone /\ AllGood(input.entries)) =>
        /\ output.a.k = "ok"
        /\ output.b.k = "ok"
        /\ Len(output.a.v.deliveries_rows) = Len(output.b.v.deliveries_rows)
        /\ Len(output.a.v.innings_rows) = Len(input.entries)
        /\ Len(output.b.v.innings_rows) = Len(input.entries)
        /\ \A k \in 1..Len(input.entries) :
              /\ output.a.v.innings_rows[k].runs = output.b.v.innings_rows[k].runs
              /\ output.a.v.innings_rows[k].wickets = output.b.v.innings_rows[k].wickets

\* C5's case: two innings, of four deliveries over two overs and of two
\* deliveries, parsed from both dialects
C5_Witness ==
    /\ output # PyNone
    /\ input.entries = <<Good("A", 3), Good("B", 2)>>
    /\ Len(output.a.v.deliveries_rows) = 6
    /\ Len(output.b.v.deliveries_rows) = 6
    /\ output.b.v.innings_rows[1].runs = PInt(11)
    /\ output.b.v.innings_rows[1].wickets = PInt(1)
    /\ output.a.v.innings_rows[2].runs = PInt(8)

\* the bowling team the claim gives an inning
C6_Other(batting_team, team1, team2) ==
    IF batting_team = team1 THEN team2
    ELSE IF batting_team = team2 THEN team1
    ELSE PyNone

\* the Innings rows and Delivery rows of r carry the claim's bowling team
C6_Inferred(r) ==
    /\ r.k = "ok"
    /\ Len(input.tms) = 1 => r.v.match_row.team2 = PyNone
    /\ \A k \in 1..Len(r.v.innings_rows) :
          r.v.innings_rows[k].bowling_team =
             C6_Other(r.v.innings_rows[k].batting_team,
                      r.v.match_row.team1, r.v.match_row.team2)
    /\ \A i \in 1..Len(r.v.deliveries_rows) :
          r.v.deliveries_rows[i].bowling_team =
             C6_Other(r.v.deliveries_rows[i].batting_team,
                      r.v.match_row.team1, r.v.match_row.team2)

\* C6: a record with one team has team2 null; an inning whose batting team is
\* neither team1 nor team2 has a null bowling_team in its Innings row and its
\* Delivery rows, and nothing is raised; an inning of one of the two teams has
\* the other as bowling_team.
C6_BowlingTeamInference ==
    (output # PyNone /\ AllGood(input.entries)) =>
        /\ C6_Inferred(output.a)
        /\ C6_Inferred(output.b)

\* the inning_number values of the Innings rows, in output order
C10_Numbers(r) == [k \in 1..Len(r.v.innings_rows) |-> r.v.innings_rows[k].inning_number.n]

\* C10 as stated: the Innings rows are numbered 1..N in output order, also when
\* entries of the inning list are skipped.
C10_OneToN ==
    output # PyNone =>
        /\ output.a.k = "ok" => \A k \in DOMAIN C10_Numbers(output.a) :
                                    C10_Numbers(output.a)[k] = k
        /\ output.b.k = "ok" => \A k \in DOMAIN C10_Numbers(output.b) :
                                    C10_Numbers(output.b)[k] = k

\* the team an entry names, None when it names none
C10_TeamOf(e) == IF e.kind = "good" THEN PStr(e.team) ELSE PyNone

\* the Innings rows of r carry, in increasing order, the positions of their
\* entries, and every inning among the entries has its row
C10_ByPosition(r, entries) ==
    r.k = "ok" =>
        /\ \A k \in DOMAIN C10_Numbers(r) :
              /\ C10_Numbers(r)[k] \in 1..Len(entries)
              /\ k > 1 => C10_Numbers(r)[k - 1] < C10_Numbers(r)[k]
              /\ r.v.innings_rows[k].batting_team = C10_TeamOf(entries[C10_Numbers(r)[k]])
        /\ \A i \in 1..Len(entries) :
              entries[i].kind = "good" => \E k \in DOMAIN C10_Numbers(r) : C10_Numbers(r)[k] = i
        /\ Len(r.v.innings_rows) = Len(entries) =>
              \A k \in DOMAIN C10_Numbers(r) : C10_Numbers(r)[k] = k

\* C10, amended: in either dialect each Innings row carries the 1-based
\* position of its inning's entry in the source inning list, so the numbers
\* increase in output order; they are 1..N when no entry is skipped, and a
\* skipped entry leaves a gap.
C10_InningNumbering ==
    output # PyNone =>
        /\ C10_ByPosition(output.a, input.entries)
        /\ C10_ByPosition(output.b, input.entries)

\* C10's case: an empty entry, then an inning: its row is numbered 2
C10_Witness ==
    /\ output # PyNone
    /\ input.entries = <<Malformed("empty"), Good("A", 2)>>
    /\ output.a.k = "ok"
    /\ Len(output.a.v.innings_rows) = 1
    /\ output.a.v.innings_rows[1].inning_number = PInt(2)

=============================================================================
